---- MODULE Spec2Model ----
(***************************************************************************)
(* rcat (src/src/main.rs): a recursive cat.  FileProcessor::run walks a    *)
(* root path depth first and, per file, prints its contents (content       *)
(* mode), prints a path announcement (list mode), or builds and prints a   *)
(* JSON description of the tree (JSON mode).                               *)
(*                                                                         *)
(* The file system is the program's input.  It is a sequence of nodes,     *)
(* node 1 being the PATH given on the command line; every other node names *)
(* its parent directory.  Nodes are numbered in depth-first pre-order,     *)
(* siblings in the order fs::read_dir yields them.  Entries are regular    *)
(* files and directories.  Chars spells a name, so that Path::extension    *)
(* and the comparison with --ext are computed from the characters.         *)
(*                                                                         *)
(* Whether a file can be opened, read and highlighted, and whether a       *)
(* directory can be enumerated, is the operating system's answer at the    *)
(* moment the program asks: the actions draw it.  fs::read_dir either      *)
(* fails or yields every entry.  The lines of a file are abstracted to     *)
(* one body event, written when every line was rendered.                   *)
(***************************************************************************)
EXTENDS Integers, Sequences, FiniteSets

\* ------------------------------------------------------------------ bounds

\* Number of entries below the root.
MaxNodes == 3

\* Largest value given to --depth.
MaxDepthArg == 1

\* ------------------------------------------------------------ Option, names

None == <<>>

Some(x) == <<x>>

Unwrap(o) == o[1]

\* The characters of the names and extensions used here.
Chars(str) ==
    CASE str = "." -> <<".">>
      [] str = "a.rs" -> <<"a", ".", "r", "s">>
      [] str = "b.RS" -> <<"b", ".", "R", "S">>
      [] str = "notes" -> <<"n", "o", "t", "e", "s">>
      [] str = "Cargo.lock" -> <<"C", "a", "r", "g", "o", ".", "l", "o", "c", "k">>
      [] str = "sub" -> <<"s", "u", "b">>
      [] str = ".git" -> <<".", "g", "i", "t">>
      [] str = "files" -> <<"f", "i", "l", "e", "s">>
      [] str = "rs" -> <<"r", "s">>

\* get_to_exclude(): the fixed set of excluded base names.
get_to_exclude ==
    {"target", ".idea", ".vscode", ".git", "Cargo.lock", ".gitignore", ".github"}

\* ------------------------------------------------------------- the inputs

\* What directory enumeration can yield: a name and whether the entry is a
\* regular file or a directory.
Entry(n, k) == [name |-> n, kind |-> k]

EntryKinds ==
    { Entry("a.rs", "file"),
      Entry("b.RS", "file"),
      Entry("notes", "file"),
      Entry("Cargo.lock", "file"),
      Entry("sub", "dir"),
      Entry(".git", "dir"),
      Entry("files", "dir") }

\* What the PATH argument can name: nothing, a file, or a directory (the
\* default PATH is ".").
RootKinds ==
    { Entry(".", "missing"),
      Entry("a.rs", "file"),
      Entry("notes", "file"),
      Entry(".", "dir") }

\* What the operating system and the highlighter can answer when a file is
\* rendered: all is well, fs::File::open fails, reading a line fails, or
\* highlighting a line fails.
Outcomes == {"ok", "noopen", "badline", "nohighlight"}

Node(e, p) == [name |-> e.name, kind |-> e.kind, parent |-> p]

RECURSIVE Ancestors(_, _)
\* The node i and the directories above it, in the tree t.
Ancestors(t, i) == IF i = 0 THEN {} ELSE {i} \cup Ancestors(t, t[i].parent)

\* The trees that extend t by one more entry: the new entry goes into a
\* directory on the path to the last node, so that the numbering
\* stays depth-first pre-order, and its name is new in that directory.
Extend(t) ==
    { Append(t, Node(e, p)) :
        <<e, p>> \in { x \in EntryKinds \X Ancestors(t, Len(t)) :
                         /\ t[x[2]].kind = "dir"
                         /\ \A j \in 1..Len(t) :
                              t[j].parent = x[2] => t[j].name # x[1].name } }

RECURSIVE TreesOfSize(_)
TreesOfSize(n) ==
    IF n = 0 THEN { <<Node(r, 0)>> : r \in RootKinds }
    ELSE UNION { Extend(t) : t \in TreesOfSize(n - 1) }

Trees == UNION { TreesOfSize(n) : n \in 0..MaxNodes }

\* Args: --no-color, --depth, --ext, --list, --json.
Args ==
    [ no_color : BOOLEAN,
      depth : {None} \cup { Some(d) : d \in 0..MaxDepthArg },
      file_ext : {None, Some("rs")},
      list : BOOLEAN,
      json : BOOLEAN ]

\* The command lines told apart: a flag that the chosen mode never reads
\* is left at its default.  run reads json first and generate_json reads
\* no other field; proces_file reads list first and no_color only in its
\* else branch.
Configs ==
    { a \in Args :
        /\ a.json => (~a.list /\ ~a.no_color /\ a.file_ext = None /\ a.depth = None)
        /\ a.list => ~a.no_color }

\* ------------------------------------------------------------------ state

VARIABLES
    fs,          \* the file system under PATH
    cfg,         \* the FileProcessor's fields
    pc,          \* "start", "walk" (inside process_directory), "done"
    stack,       \* the active process_directory calls, innermost last
    out,         \* what was written to standard output
    result,      \* what run returned
    dispatched,  \* the paths handed to proces_file, in order
    visited,     \* the entries the process_directory loops have taken
    opened,      \* the files fs::File::open was called on
    enumerated,  \* the paths fs::read_dir was called on
    failed       \* the files whose rendering and the paths whose fs::read_dir failed

vars ==
    <<fs, cfg, pc, stack, out, result, dispatched, visited, opened, enumerated, failed>>

Root == 1

Nodes == 1..Len(fs)

\* ------------------------------------------------------- paths and filters

RECURSIVE PathOf(_)
\* The path of node i: the components from PATH down to the entry.
PathOf(i) ==
    IF fs[i].parent = 0 THEN <<fs[i].name>>
    ELSE Append(PathOf(fs[i].parent), fs[i].name)

\* exists, had run not looked.
exists_unchecked(i) == TRUE

\* Path::exists
exists(i) == fs[i].kind # "missing"

\* Path::is_dir
is_dir(i) == fs[i].kind = "dir"

\* Path::is_file
is_file(i) == fs[i].kind = "file"

\* Path::file_name: the last component, unless it is "." or "..".
file_name(path) ==
    LET last == path[Len(path)]
    IN  IF last = "." \/ last = ".." THEN None ELSE Some(last)

\* FileProcessor::should_skip
should_skip(path) ==
    LET f == file_name(path)
    IN  IF f = None THEN FALSE ELSE Unwrap(f) \in get_to_exclude

\* The positions of "." in a name.
Dots(name) == { k \in 1..Len(name) : name[k] = "." }

Max(S) == CHOOSE m \in S : \A k \in S : k <= m

\* Path::extension: what follows the last "." of the file name, unless the
\* name has no "." or only a leading one.
extension(path) ==
    LET f == file_name(path)
    IN  IF f = None THEN None
        ELSE LET name == Chars(Unwrap(f))
             IN  IF Dots(name) = {} \/ Max(Dots(name)) = 1 THEN None
                 ELSE Some(SubSeq(name, Max(Dots(name)) + 1, Len(name)))

\* path.extension().and_then(|s| s.to_str()).unwrap_or("")
file_extension(path) ==
    IF extension(path) = None THEN <<>> ELSE Unwrap(extension(path))

Lower(c) == IF c = "R" THEN "r" ELSE IF c = "S" THEN "s" ELSE c

\* ext_matches, had the comparison ignored case.
ext_matches_nocase(file_ext, ext) ==
    \/ file_ext = None
    \/ [k \in 1..Len(ext) |-> Lower(ext[k])] = Chars(Unwrap(file_ext))

\* self.file_ext.as_ref().is_none_or(|ext| file_extension == ext)
ext_matches(file_ext, ext) ==
    \/ file_ext = None
    \/ ext = Chars(Unwrap(file_ext))

\* The entries of directory d in enumeration order.
Children(d) == SelectSeq([i \in Nodes |-> i], LAMBDA i : fs[i].parent = d)

Ok(v) == [ok |-> TRUE, val |-> v]

Err(e) == [ok |-> FALSE, err |-> e]

\* fs::read_dir, readable telling whether the operating system lets the
\* directory be read.
read_dir(d, readable) ==
    IF is_dir(d) /\ readable THEN Ok(Children(d)) ELSE Err("DirectoryRead")

\* ------------------------------------------------------------ the renderer

Event(k, i) == [kind |-> k, node |-> i]

\* FileProcessor::print_file_info
print_file_info(i) == <<Event("header", i)>>

\* FileProcessor::print_file_contents: the banner, then open, then every
\* line plain or highlighted, then the footer; o is the outcome.
print_file_contents(i, no_color, o) ==
    IF ~is_file(i) \/ o = "noopen"
    THEN [out |-> print_file_info(i), res |-> Err("FileOpen"), opened |-> {i}]
    ELSE IF o = "badline"
    THEN [out |-> print_file_info(i), res |-> Err("Io"), opened |-> {i}]
    ELSE IF no_color
    THEN [out |-> print_file_info(i) \o <<Event("plain", i), Event("footer", i)>>,
          res |-> Ok(None), opened |-> {i}]
    ELSE IF o = "nohighlight"
    THEN [out |-> print_file_info(i), res |-> Err("SyntaxHighlighting"), opened |-> {i}]
    ELSE [out |-> print_file_info(i) \o <<Event("highlighted", i), Event("footer", i)>>,
          res |-> Ok(None), opened |-> {i}]

\* proces_file, had it not looked at list.
proces_file_always_reads(i, o) == print_file_contents(i, cfg.no_color, o)

\* FileProcessor::proces_file
proces_file(i, o) ==
    IF cfg.list
    THEN [out |-> <<Event("listing", i)>>, res |-> Ok(None), opened |-> {}]
    ELSE print_file_contents(i, cfg.no_color, o)

\* ---------------------------------------------------------------- JSON tree

Array(items) == [type |-> "array", items |-> items]

Object(members) == [type |-> "object", members |-> members]

\* The entries that generate_json's loop keeps, bad being the paths that
\* cannot be enumerated: a failed fs::read_dir yields no entry, and
\* should_skip is asked about the directory being listed (path), not about
\* the entry.
JsonKept(d, bad) ==
    LET r == read_dir(d, d \notin bad)
        es == IF r.ok THEN r.val ELSE <<>>
    IN  SelectSeq(es, LAMBDA e : ~should_skip(PathOf(d)))

RECURSIVE generate_json(_, _)
\* FileProcessor::generate_json: "files" holds the names of the kept
\* entries that are not directories; then every kept directory's name is
\* assigned its own tree (result[key] = value).
generate_json(d, bad) ==
    LET kept == JsonKept(d, bad)
        dirs == { kept[k] : k \in { k \in 1..Len(kept) : is_dir(kept[k]) } }
        fileIds == SelectSeq(kept, LAMBDA e : ~is_dir(e))
        files == [k \in 1..Len(fileIds) |-> fs[fileIds[k]].name]
        keys == {"files"} \cup { fs[e].name : e \in dirs }
    IN  Object([ key \in keys |->
                   IF \E e \in dirs : fs[e].name = key
                   THEN generate_json(CHOOSE e \in dirs : fs[e].name = key, bad)
                   ELSE Array(files) ])

RECURSIVE JsonReads(_, _)
\* The paths generate_json(d) calls fs::read_dir on.
JsonReads(d, bad) ==
    LET kept == JsonKept(d, bad)
    IN  {d} \cup UNION { JsonReads(kept[k], bad) :
                           k \in { k \in 1..Len(kept) : is_dir(kept[k]) } }

\* ------------------------------------------------------------------- Init

Init ==
    /\ fs \in Trees
    /\ cfg \in Configs
    /\ pc = "start"
    /\ stack = <<>>
    /\ out = <<>>
    /\ result = "none"
    /\ dispatched = <<>>
    /\ visited = <<>>
    /\ opened = {}
    /\ enumerated = {}
    /\ failed = {}

\* ------------------------------------------------------ process_directory

Frame(d, depth, rest) == [dir |-> d, depth |-> depth, rest |-> rest]

Top == stack[Len(stack)]

\* The stack once the innermost loop has taken its next entry.
Advanced ==
    [stack EXCEPT ![Len(stack)] = Frame(Top.dir, Top.depth, Tail(Top.rest))]

\* push, had the call waited for the callers' loops to end.
push_below(stk, frame) == <<frame>> \o stk

\* A call of process_directory runs before its caller's loop goes on.
push(stk, frame) == Append(stk, frame)

\* descend, had the test been d >= 0.
descend_once_more(depth) ==
    IF depth = None THEN Some(None)
    ELSE IF Unwrap(depth) >= 0 THEN Some(Some(Unwrap(depth) - 1))
    ELSE None

\* The depth a subdirectory is descended with, None when it is pruned:
\* if let Some(d) = depth { if d > 0 { .. Some(d - 1) } } else { .. depth }
descend(depth) ==
    IF depth = None THEN Some(None)
    ELSE IF Unwrap(depth) > 0 THEN Some(Some(Unwrap(depth) - 1))
    ELSE None

\* process_directory, had it taken a failed fs::read_dir for an empty
\* directory.
process_directory_lenient(d, depth, stk, readable) ==
    IF ~is_dir(d) THEN [stack |-> stk, err |-> None, reads |-> {}, failed |-> {}]
    ELSE LET r == read_dir(d, readable)
         IN  IF r.ok
             THEN [stack |-> push(stk, Frame(d, depth, r.val)), err |-> None,
                   reads |-> {d}, failed |-> {}]
             ELSE [stack |-> stk, err |-> None, reads |-> {d}, failed |-> {d}]

\* The head of process_directory(d, depth), called with the caller's stack:
\* nothing for a path that is no directory, the error of fs::read_dir
\* handed up through every caller's `?`, or a new loop over the entries.
process_directory(d, depth, stk, readable) ==
    IF ~is_dir(d) THEN [stack |-> stk, err |-> None, reads |-> {}, failed |-> {}]
    ELSE LET r == read_dir(d, readable)
         IN  IF r.ok
             THEN [stack |-> push(stk, Frame(d, depth, r.val)), err |-> None,
                   reads |-> {d}, failed |-> {}]
             ELSE [stack |-> <<>>, err |-> Some(r.err), reads |-> {d}, failed |-> {d}]

\* The state after a call of process_directory made from run or from a loop.
Called(c) ==
    /\ enumerated' = enumerated \cup c.reads
    /\ failed' = failed \cup c.failed
    /\ stack' = c.stack
    /\ IF c.err # None
       THEN pc' = "done" /\ result' = Unwrap(c.err)
       ELSE IF c.stack = <<>>
       THEN pc' = "done" /\ result' = "Ok"
       ELSE pc' = "walk" /\ result' = result

\* root_file, had run applied --ext to PATH.
root_file_filtered(i) ==
    IF ext_matches(cfg.file_ext, file_extension(PathOf(i)))
    THEN <<i>> ELSE <<>>

\* What run hands to proces_file when PATH is not a directory: the path.
root_file(i) == <<i>>

\* ------------------------------------------------------------------- run

\* run: if !path.exists() { return Err(PathNotFound) }
RunPathNotFound ==
    /\ pc = "start"
    /\ ~exists(Root)
    /\ pc' = "done"
    /\ result' = "PathNotFound"
    /\ UNCHANGED <<fs, cfg, stack, out, dispatched, visited, opened, enumerated, failed>>

\* run: if self.json { println!(generate_json(path)); Ok(()) }
RunJson ==
    /\ pc = "start"
    /\ exists(Root)
    /\ cfg.json
    /\ \E bad \in SUBSET { i \in Nodes : is_dir(i) } :
         /\ out' = Append(out, [kind |-> "json", node |-> Root,
                                tree |-> generate_json(Root, bad)])
         /\ enumerated' = enumerated \cup JsonReads(Root, bad)
         /\ failed' = failed \cup { i \in JsonReads(Root, bad) : ~read_dir(i, i \notin bad).ok }
    /\ pc' = "done"
    /\ result' = "Ok"
    /\ UNCHANGED <<fs, cfg, stack, dispatched, visited, opened>>

\* run: else if path.is_dir() { self.process_directory(path, self.depth) }
RunDirectory ==
    /\ pc = "start"
    /\ exists(Root)
    /\ ~cfg.json
    /\ is_dir(Root)
    /\ \E readable \in BOOLEAN :
         Called(process_directory(Root, cfg.depth, stack, readable))
    /\ UNCHANGED <<fs, cfg, out, dispatched, visited, opened>>

\* run: else { self.proces_file(path) }
RunFile ==
    /\ pc = "start"
    /\ exists(Root)
    /\ ~cfg.json
    /\ ~is_dir(Root)
    /\ \E o \in Outcomes :
         LET todo == root_file(Root)
             r == proces_file(Root, o)
         IN  IF todo = <<>>
             THEN /\ result' = "Ok"
                  /\ UNCHANGED <<out, dispatched, opened, failed>>
             ELSE /\ dispatched' = dispatched \o todo
                  /\ out' = out \o r.out
                  /\ opened' = opened \cup r.opened
                  /\ failed' = IF r.res.ok THEN failed ELSE failed \cup {Root}
                  /\ result' = IF r.res.ok THEN "Ok" ELSE r.res.err
    /\ pc' = "done"
    /\ UNCHANGED <<fs, cfg, stack, visited, enumerated>>

\* process_directory's loop: if self.should_skip(&path) { continue; }
SkipEntry ==
    /\ pc = "walk"
    /\ Top.rest # <<>>
    /\ LET e == Head(Top.rest)
       IN  /\ should_skip(PathOf(e))
           /\ visited' = Append(visited, e)
    /\ stack' = Advanced
    /\ UNCHANGED <<fs, cfg, pc, out, result, dispatched, opened, enumerated, failed>>

\* process_directory's loop: if path.is_file() { .. self.proces_file(&path)?; }
\* An error of proces_file goes up through every caller's `?` to run.
VisitFile ==
    /\ pc = "walk"
    /\ Top.rest # <<>>
    /\ ~should_skip(PathOf(Head(Top.rest)))
    /\ is_file(Head(Top.rest))
    /\ visited' = Append(visited, Head(Top.rest))
    /\ IF ext_matches(cfg.file_ext, file_extension(PathOf(Head(Top.rest))))
       THEN \E o \in Outcomes :
              LET e == Head(Top.rest)
                  r == proces_file(e, o)
              IN  /\ dispatched' = Append(dispatched, e)
                  /\ out' = out \o r.out
                  /\ opened' = opened \cup r.opened
                  /\ IF r.res.ok
                     THEN stack' = Advanced /\ UNCHANGED <<pc, result, failed>>
                     ELSE /\ stack' = <<>>
                          /\ pc' = "done"
                          /\ result' = r.res.err
                          /\ failed' = failed \cup {e}
       ELSE /\ stack' = Advanced
            /\ UNCHANGED <<pc, result, out, dispatched, opened, failed>>
    /\ UNCHANGED <<fs, cfg, enumerated>>

\* process_directory's loop: if path.is_dir() { .. self.process_directory(..)?; }
VisitDirectory ==
    /\ pc = "walk"
    /\ Top.rest # <<>>
    /\ ~should_skip(PathOf(Head(Top.rest)))
    /\ is_dir(Head(Top.rest))
    /\ visited' = Append(visited, Head(Top.rest))
    /\ IF descend(Top.depth) = None
       THEN stack' = Advanced /\ UNCHANGED <<pc, result, enumerated, failed>>
       ELSE \E readable \in BOOLEAN :
              Called(process_directory(Head(Top.rest), Unwrap(descend(Top.depth)),
                                       Advanced, readable))
    /\ UNCHANGED <<fs, cfg, out, dispatched, opened>>

\* process_directory: the loop is over, Ok(()) goes to the caller, and run
\* returns it when the caller is run.
ReturnDirectory ==
    /\ pc = "walk"
    /\ Top.rest = <<>>
    /\ stack' = SubSeq(stack, 1, Len(stack) - 1)
    /\ IF Len(stack) = 1
       THEN pc' = "done" /\ result' = "Ok"
       ELSE UNCHANGED <<pc, result>>
    /\ UNCHANGED <<fs, cfg, out, dispatched, visited, opened, enumerated, failed>>

Next ==
    \/ RunPathNotFound
    \/ RunJson
    \/ RunDirectory
    \/ RunFile
    \/ SkipEntry
    \/ VisitFile
    \/ VisitDirectory
    \/ ReturnDirectory

Spec == Init /\ [][Next]_vars

\* ------------------------------------------------- what the claims speak of

IsPrefix(s, t) == Len(s) <= Len(t) /\ s = SubSeq(t, 1, Len(s))

Elems(s) == { s[k] : k \in 1..Len(s) }

\* The entries below the root.
Entries == 2..Len(fs)

\* The base name is in the exclusion set.
Excluded(i) == fs[i].name \in get_to_exclude

RECURSIVE Level(_)
\* The number of directories between the root and entry i.
Level(i) == IF fs[i].parent = Root THEN 0 ELSE 1 + Level(fs[i].parent)

RECURSIVE UnderExcluded(_)
\* Entry i or a directory between the root and i has an excluded name.
UnderExcluded(i) ==
    IF i = Root THEN FALSE ELSE Excluded(i) \/ UnderExcluded(fs[i].parent)

\* The extension a name is written with, none for a name without one.
NamedExt(name) ==
    CASE name = "a.rs" -> Some("rs")
      [] name = "b.RS" -> Some("RS")
      [] name = "Cargo.lock" -> Some("lock")
      [] OTHER -> None

\* The file passes --ext.
PassesExt(i) == cfg.file_ext = None \/ NamedExt(fs[i].name) = cfg.file_ext

\* The file lies within --depth.
WithinDepth(i) == cfg.depth = None \/ Level(i) <= Unwrap(cfg.depth)

\* The files a walk of the root directory is to dispatch, in depth-first
\* pre-order.
Qualifying ==
    SelectSeq([k \in 1..Len(fs) - 1 |-> k + 1],
              LAMBDA i : is_file(i) /\ ~UnderExcluded(i) /\ PassesExt(i) /\ WithinDepth(i))

RECURSIVE IdPath(_)
\* The nodes from the root down to i.
IdPath(i) == IF i = Root THEN <<Root>> ELSE Append(IdPath(fs[i].parent), i)

\* The place of entry i in the enumeration of its directory.
Place(i) == CHOOSE k \in 1..Len(Children(fs[i].parent)) : Children(fs[i].parent)[k] = i

\* Depth-first pre-order in enumeration order: x is above y, or where their
\* paths part, x's side is enumerated first.
Precedes(x, y) ==
    LET px == IdPath(x)
        py == IdPath(y)
    IN  /\ x # y
        /\ \/ IsPrefix(px, py)
           \/ \E k \in 2..Len(px) :
                /\ k <= Len(py)
                /\ SubSeq(px, 1, k - 1) = SubSeq(py, 1, k - 1)
                /\ px[k] # py[k]
                /\ Place(px[k]) < Place(py[k])

WalkMode == ~cfg.json /\ is_dir(Root)

ContentMode == ~cfg.json /\ ~cfg.list

ListMode == ~cfg.json /\ cfg.list

RenderErrors == {"FileOpen", "Io", "SyntaxHighlighting"}

EmptyTree == Object([key \in {"files"} |-> Array(<<>>)])

\* The tree that was printed.
Printed == out[1].tree

RECURSIVE JsonNames(_)
\* Every key and every element of a list in a JSON value.
JsonNames(v) ==
    IF v.type = "array" THEN Elems(v.items)
    ELSE DOMAIN v.members \cup UNION { JsonNames(v.members[k]) : k \in DOMAIN v.members }

RECURSIVE Lookup(_, _)
\* The value reached from v through the keys.
Lookup(v, keys) ==
    IF keys = <<>> THEN v ELSE Lookup(v.members[Head(keys)], Tail(keys))

RECURSIVE ExpectedTree(_)
\* The tree of directory d as section 4.2 describes it.
ExpectedTree(d) ==
    LET kids == Children(d)
        fileIds == SelectSeq(kids, LAMBDA e : ~is_dir(e) /\ ~Excluded(e))
        dirs == { e \in Elems(kids) : is_dir(e) /\ ~Excluded(e) }
    IN  Object([ key \in {"files"} \cup { fs[e].name : e \in dirs } |->
                   IF key = "files"
                   THEN Array([k \in 1..Len(fileIds) |-> fs[fileIds[k]].name])
                   ELSE ExpectedTree(CHOOSE e \in dirs : fs[e].name = key) ])

\* ------------------------------------------------------------------ claims

\* C1 (as claimed): in content mode a file whose rendering fails does not
\* end the walk: run returns Ok and every qualifying file is dispatched.
C1_RenderFailureIsCaught ==
    (pc = "done" /\ WalkMode /\ ContentMode /\ \E f \in failed : is_file(f))
        => /\ result = "Ok"
           /\ dispatched = Qualifying

\* C2 (as claimed): in every mode an entry below the root with an excluded
\* base name is never output and never descended into; it is neither a key
\* nor a `files` element of the JSON tree.
C2_ExcludedNeverOutput ==
    /\ \A i \in Entries :
         Excluded(i) =>
           /\ i \notin Elems(dispatched)
           /\ \A k \in 1..Len(out) : out[k].node # i
           /\ i \notin enumerated
    /\ (pc = "done" /\ cfg.json /\ exists(Root))
         => JsonNames(Printed) \cap get_to_exclude = {}

\* C3: in content and list mode on a root directory the dispatched files
\* are, in order, the non-excluded files that pass --ext and lie at most
\* --depth directory levels below the root: at every moment a prefix of
\* them, all of them when run returns Ok; and no process_directory call
\* holds a remaining depth below zero.
C3_DepthLimit ==
    WalkMode =>
        /\ IsPrefix(dispatched, Qualifying)
        /\ (pc = "done" /\ result = "Ok") => dispatched = Qualifying
        /\ \A k \in 1..Len(stack) :
             stack[k].depth = None \/ Unwrap(stack[k].depth) >= 0

\* C3 witness: a finished walk with --depth 1 that descended one level,
\* met a directory there and left the file inside it alone.
C3_Witness ==
    /\ pc = "done" /\ result = "Ok" /\ WalkMode
    /\ cfg.depth = Some(1)
    /\ \E i \in Entries :
         /\ is_file(i) /\ Level(i) = 2 /\ ~UnderExcluded(i) /\ PassesExt(i)
         /\ fs[i].parent \in Elems(visited)
         /\ fs[i].parent \notin enumerated
         /\ i \notin Elems(dispatched)

\* C4: in content and list mode a file the walk of a directory comes to
\* is dispatched if and only if --ext is absent or equals the file's
\* extension exactly, case included; a file without extension is not
\* dispatched under --ext.
C4_ExtensionFilter ==
    WalkMode =>
        \A k \in 1..Len(visited) :
            LET i == visited[k]
            IN  (is_file(i) /\ ~Excluded(i)) =>
                  /\ i \in Elems(dispatched) <=> PassesExt(i)
                  /\ (cfg.file_ext # None /\ fs[i].name = "notes")
                       => i \notin Elems(dispatched)

\* C4 witness: under --ext rs the walk came to a.rs, b.RS and notes and
\* dispatched a.rs alone.
C4_Witness ==
    /\ pc = "done" /\ WalkMode /\ cfg.file_ext = Some("rs")
    /\ { fs[i].name : i \in Elems(visited) } = {"a.rs", "b.RS", "notes"}
    /\ { fs[i].name : i \in Elems(dispatched) } = {"a.rs"}

\* C5: when the root path does not exist nothing is written, no directory
\* is enumerated, no file is opened, and run returns PathNotFound, in
\* every mode.
C5_PathNotFound ==
    ~(fs[Root].kind # "missing") =>
        /\ out = <<>>
        /\ enumerated = {}
        /\ opened = {}
        /\ dispatched = <<>>
        /\ pc = "done" => result = "PathNotFound"

\* C5 witness: run has returned for a missing root under --json.
C5_Witness ==
    /\ fs[Root].kind = "missing"
    /\ pc = "done"
    /\ cfg.json
    /\ result = "PathNotFound"

\* C6 (as claimed): the printed tree is, at every directory, the list of
\* the non-excluded direct file children under `files` and one further key
\* per non-excluded direct subdirectory, mapping to that subdirectory's tree.
C6_TreeShape ==
    (pc = "done" /\ cfg.json /\ is_dir(Root) /\ failed = {})
        => Printed = ExpectedTree(Root)

\* C7: in list mode no file is opened: the output is one path announcement
\* per dispatched file and run returns no rendering error; in content
\* mode a file that cannot be rendered makes run return its error.
C7_ListNeverReads ==
    /\ ListMode =>
         /\ opened = {}
         /\ out = [k \in 1..Len(dispatched) |-> Event("listing", dispatched[k])]
         /\ result \notin RenderErrors
         /\ \A f \in failed : ~is_file(f)
    /\ (ContentMode /\ \E f \in failed : is_file(f))
         => pc = "done" /\ result \in RenderErrors

\* C7 witness: a finished list-mode walk that announced a file.
C7_Witness ==
    /\ ListMode /\ WalkMode
    /\ pc = "done" /\ result = "Ok"
    /\ dispatched # <<>>

C9_PreOrder ==
    ~cfg.json =>
        /\ \A k \in 1..Len(dispatched) - 1 :
             Precedes(dispatched[k], dispatched[k + 1])
        /\ \A k \in 1..Len(visited) - 1 :
             Precedes(visited[k], visited[k + 1])
        /\ LET starts == SelectSeq(out, LAMBDA ev : ev.kind \in {"header", "listing"})
           IN  /\ [k \in 1..Len(starts) |-> starts[k].node] = dispatched
               /\ \A k \in 1..Len(out) :
                    out[k].kind \notin {"header", "listing"}
                        => k > 1 /\ out[k - 1].node = out[k].node

\* C9 witness: a file inside a subdirectory was dispatched, then a file
\* that follows that subdirectory in the root.
C9_Witness ==
    /\ pc = "done" /\ WalkMode
    /\ Len(dispatched) = 2
    /\ fs[dispatched[1]].parent # Root
    /\ fs[dispatched[2]].parent = Root

\* C10: a root that is a single file is, outside JSON mode, dispatched
\* exactly once whatever --ext and --depth are; in JSON mode it is printed
\* as a tree with an empty `files` list and run returns Ok.
C10_RootFile ==
    (pc = "done" /\ is_file(Root)) =>
        IF cfg.json
        THEN /\ result = "Ok"
             /\ Len(out) = 1
             /\ Printed = EmptyTree
             /\ dispatched = <<>>
        ELSE /\ dispatched = <<Root>>
             /\ Cardinality({ k \in 1..Len(out) :
                                out[k].kind \in {"header", "listing"} /\ out[k].node = Root }) = 1

\* C10 witness: the root file notes was dispatched under --ext rs.
C10_Witness ==
    /\ pc = "done" /\ is_file(Root) /\ ~cfg.json
    /\ fs[Root].name = "notes"
    /\ cfg.file_ext = Some("rs")
    /\ cfg.depth = Some(0)
    /\ dispatched = <<Root>>

====
